---- MODULE Spec2Model ----
(***************************************************************************)
(* Model of the serverless-version-manager plugin (src/src/index.ts).      *)
(*                                                                         *)
(* Strings are sequences of one-character strings, so that the plugin's    *)
(* parsing (replace / split / map(Number) / regex test / parseInt) is      *)
(* computed and not assumed.  An absent value (JavaScript undefined) is    *)
(* the one-element sequence Undefined, null is Null.                       *)
(***************************************************************************)
EXTENDS Integers, Sequences, FiniteSets, TLC

\* ------------------------------------------------------------------------
\* Bounds of the model
\* ------------------------------------------------------------------------

\* The largest number of stages the API Gateway registry holds.
MaxStages == 3

\* ------------------------------------------------------------------------
\* Values
\* ------------------------------------------------------------------------

Undefined == <<"undefined">>
Null == <<"null">>

Digits == {"0", "1", "2", "3", "4", "5", "6", "7", "8", "9"}

\* The separators of split(/[-.]/).
Separators == {"-", "."}

\* ------------------------------------------------------------------------
\* String helpers of the JavaScript runtime, as the plugin uses them
\* ------------------------------------------------------------------------

DigitVal(c) ==
  CASE c = "0" -> 0 [] c = "1" -> 1 [] c = "2" -> 2 [] c = "3" -> 3
    [] c = "4" -> 4 [] c = "5" -> 5 [] c = "6" -> 6 [] c = "7" -> 7
    [] c = "8" -> 8 [] c = "9" -> 9

IsDigits(s) == \A i \in 1..Len(s) : s[i] \in Digits

\* Number(s) for a string of decimal digits; Number("") is 0.
RECURSIVE ToNumber(_)
ToNumber(s) ==
  IF s = <<>> THEN 0
  ELSE ToNumber(SubSeq(s, 1, Len(s) - 1)) * 10 + DigitVal(s[Len(s)])

\* s.replace(/^v/, '')
StripV(s) == IF Len(s) > 0 /\ s[1] = "v" THEN Tail(s) ELSE s

\* s.split(seps): the pieces between separator characters (never empty).
RECURSIVE SplitAcc(_, _, _, _)
SplitAcc(s, seps, cur, acc) ==
  IF s = <<>> THEN Append(acc, cur)
  ELSE IF Head(s) \in seps THEN SplitAcc(Tail(s), seps, <<>>, Append(acc, cur))
  ELSE SplitAcc(Tail(s), seps, Append(cur, Head(s)), acc)

Split(s, seps) == SplitAcc(s, seps, <<>>, <<>>)

\* version.replace(/^v/, '').split(/[-.]/).map(Number)
ParseVersion(s) ==
  LET parts == Split(StripV(s), Separators)
  IN  [i \in 1..Len(parts) |-> ToNumber(parts[i])]

\* /^v\d+-\d+-\d+$/.test(s)
versionRegex(s) ==
  /\ Len(s) > 0
  /\ s[1] = "v"
  /\ LET parts == Split(Tail(s), {"-"})
     IN  /\ Len(parts) = 3
         /\ \A i \in 1..3 : Len(parts[i]) > 0 /\ IsDigits(parts[i])

\* The leading decimal digits of s.
RECURSIVE LeadingDigits(_)
LeadingDigits(s) ==
  IF s = <<>> \/ Head(s) \notin Digits THEN <<>>
  ELSE <<Head(s)>> \o LeadingDigits(Tail(s))

\* parseInt(s, 10): an optional sign, then the leading digits; NaN without a digit.
parseInt(s) ==
  LET neg  == Len(s) > 0 /\ s[1] = "-"
      body == IF Len(s) > 0 /\ s[1] \in {"-", "+"} THEN Tail(s) ELSE s
      ds   == LeadingDigits(body)
  IN  IF ds = <<>> THEN [nan |-> TRUE, n |-> 0]
      ELSE [nan |-> FALSE, n |-> IF neg THEN 0 - ToNumber(ds) ELSE ToNumber(ds)]

\* ------------------------------------------------------------------------
\* Stages (aws-sdk APIGateway.Stage): a name and optional tags with an
\* optional ALIAS.  hasTags = FALSE is stage.tags === undefined.
\* ------------------------------------------------------------------------

MkStage(name, hasTags, alias) ==
  [stageName |-> name, hasTags |-> hasTags, ALIAS |-> alias]

\* stage.tags?.ALIAS
TagOf(stage) == IF stage.hasTags THEN stage.ALIAS ELSE Undefined

\* ------------------------------------------------------------------------
\* The two comparators
\* ------------------------------------------------------------------------

\* The i-th component (1-based) of b in semverSort: b.tags?.ALIAS...[i] ?? 0
SortOther(b, i) ==
  IF ~b.hasTags THEN 0
  ELSE LET vb == ParseVersion(b.ALIAS)
       IN  IF i <= Len(vb) THEN vb[i] ELSE 0

\* reduce((acc, cur, i) => acc || cur - other(i), 0) over a's components.
RECURSIVE SortReduce(_, _, _, _)
SortReduce(va, b, i, acc) ==
  IF i > Len(va) THEN acc
  ELSE SortReduce(va, b, i + 1, IF acc # 0 THEN acc ELSE va[i] - SortOther(b, i))

\* semverSort throws a TypeError when a has no readable ALIAS (a.tags!.ALIAS
\* .replace) or when b has tags without an ALIAS (b.tags?.ALIAS.replace).
semverSortThrows(a, b) ==
  \/ TagOf(a) = Undefined
  \/ b.hasTags /\ b.ALIAS = Undefined

semverSort(a, b) == SortReduce(ParseVersion(a.ALIAS), b, 1, 0)

\* v[i] || 0
CompOrZero(v, i) == IF i <= Len(v) THEN v[i] ELSE 0

Max(x, y) == IF x >= y THEN x ELSE y

RECURSIVE GreaterLoop(_, _, _)
GreaterLoop(v1, v2, i) ==
  IF i > Max(Len(v1), Len(v2)) THEN FALSE
  ELSE IF CompOrZero(v1, i) > CompOrZero(v2, i) THEN TRUE
  ELSE IF CompOrZero(v1, i) < CompOrZero(v2, i) THEN FALSE
  ELSE GreaterLoop(v1, v2, i + 1)

\* isGreaterVersion with the comparison of equal versions answering true.
isGreaterVersionOrEqual(greater, lesser) ==
  ~GreaterLoop(ParseVersion(lesser), ParseVersion(greater), 1)

isGreaterVersion(greater, lesser) ==
  GreaterLoop(ParseVersion(greater), ParseVersion(lesser), 1)

\* ------------------------------------------------------------------------
\* Array.prototype.sort(semverSort) as Node's engine runs it on an array
\* shorter than 64 elements: one run is counted (and reversed when strictly
\* descending), the rest is inserted by binary insertion.  The comparator
\* is always called with the later element first.  A comparator that throws
\* aborts the sort.
\* ------------------------------------------------------------------------

\* The length of the run that starts at arr[1] (0 when the comparator throws).
RECURSIVE RunLen(_, _, _)
RunLen(arr, desc, idx) ==
  IF idx > Len(arr) THEN idx - 1
  ELSE IF semverSortThrows(arr[idx], arr[idx - 1]) THEN 0
  ELSE LET order == semverSort(arr[idx], arr[idx - 1])
       IN  IF desc /\ order >= 0 THEN idx - 1
           ELSE IF ~desc /\ order < 0 THEN idx - 1
           ELSE RunLen(arr, desc, idx + 1)

Reverse(s) == [i \in 1..Len(s) |-> s[Len(s) + 1 - i]]

\* The 0-based place of pivot among arr[1..right] (-1 when the comparator throws).
RECURSIVE BinSearch(_, _, _, _)
BinSearch(arr, pivot, left, right) ==
  IF left >= right THEN left
  ELSE LET mid == left + ((right - left) \div 2)
       IN  IF semverSortThrows(pivot, arr[mid + 1]) THEN 0 - 1
           ELSE IF semverSort(pivot, arr[mid + 1]) < 0
                THEN BinSearch(arr, pivot, left, mid)
                ELSE BinSearch(arr, pivot, mid + 1, right)

RECURSIVE InsertFrom(_, _)
InsertFrom(arr, p) ==
  IF p > Len(arr) THEN [thr |-> FALSE, arr |-> arr]
  ELSE LET pos == BinSearch(arr, arr[p], 0, p - 1)
       IN  IF pos < 0 THEN [thr |-> TRUE, arr |-> arr]
           ELSE InsertFrom(SubSeq(arr, 1, pos) \o <<arr[p]>>
                             \o SubSeq(arr, pos + 1, p - 1)
                             \o SubSeq(arr, p + 1, Len(arr)), p + 1)

SortStages(arr) ==
  IF Len(arr) < 2 THEN [thr |-> FALSE, arr |-> arr]
  ELSE IF semverSortThrows(arr[2], arr[1]) THEN [thr |-> TRUE, arr |-> arr]
  ELSE LET desc == semverSort(arr[2], arr[1]) < 0
           run  == RunLen(arr, desc, 3)
       IN  IF run = 0 THEN [thr |-> TRUE, arr |-> arr]
           ELSE InsertFrom(
                  IF desc THEN Reverse(SubSeq(arr, 1, run)) \o SubSeq(arr, run + 1, Len(arr))
                  ELSE arr,
                  run + 1)

\* ------------------------------------------------------------------------
\* Inputs: the configurations, candidate versions and stages the model
\* draws from
\* ------------------------------------------------------------------------

Str_v1_0_0 == <<"v", "1", "-", "0", "-", "0">>
Str_v2_9_9 == <<"v", "2", "-", "9", "-", "9">>
Str_v2_9_5 == <<"v", "2", "-", "9", "-", "5">>
Str_v2_10_0 == <<"v", "2", "-", "1", "0", "-", "0">>
Str_v2_9 == <<"v", "2", "-", "9">>
Str_1_2_0 == <<"1", "-", "2", "-", "0">>
Str_v0 == <<"v", "0">>
Str_v1b == <<"v", "1", "b">>
Str_v3 == <<"v", "3">>
Str_dev == <<"d", "e", "v">>
Str_svc == <<"s", "v", "c">>

\* custom.versionManager.retainPolicy as configured
RetainChoices ==
  {Undefined, <<>>, <<"0">>, <<"-", "1">>, <<"a", "b", "c">>, <<"1">>, <<"2", "x">>}

\* custom.versionManager.apiVersion as configured
CandidateChoices == {Undefined, <<>>, Str_1_2_0, Str_v2_9_5, Str_v2_10_0}

\* serverless.service.service
ServiceChoices == {Null, Str_svc}

\* Stages found in API Gateway before the plugin runs: well-formed version
\* stages, one with a two-component tag, one with the tag of another stage,
\* one without tags, one with tags but no ALIAS, and one that is no version
\* stage.
StageChoices ==
  { MkStage(Str_v1_0_0, TRUE, Str_v1_0_0),
    MkStage(Str_v2_9_9, TRUE, Str_v2_9_9),
    MkStage(Str_v2_9, TRUE, Str_v2_9),
    MkStage(Str_v1b, TRUE, Str_v1_0_0),
    MkStage(Str_v0, FALSE, Undefined),
    MkStage(Str_v3, TRUE, Undefined),
    MkStage(Str_dev, FALSE, Undefined) }

\* Sequences of distinct stages (stage names are unique in a REST API).
RECURSIVE StageSeqs(_)
StageSeqs(n) ==
  IF n = 0 THEN {<<>>}
  ELSE LET shorter == StageSeqs(n - 1)
       IN  shorter \cup
             { Append(s, st) : s \in { t \in shorter : Len(t) = n - 1 }, st \in StageChoices }

Registries ==
  { s \in StageSeqs(MaxStages) :
      \A i, j \in 1..Len(s) : i # j => s[i].stageName # s[j].stageName }

\* ------------------------------------------------------------------------
\* State
\* ------------------------------------------------------------------------

VARIABLES
  pc,             \* where the plugin process is
  cmd,            \* the command the process runs: "deploy" or "cleanup"
  op,             \* the hook that runs: "none", "validate", "cleanup"
  env,            \* this.env: [retainPolicy, apiVersion] as configured
  service,        \* serverless.service.service
  retainPolicy,   \* this.retainPolicy, parsed by the constructor
  registry,       \* the stages API Gateway holds, in the order getStages lists them
  orderedStages,  \* the result of getStagesInOrder in the running hook
  stagesToKeep,
  stagesToDelete,
  idx,            \* the 1-based position of the for-of loop in stagesToDelete
  outstanding,    \* the external calls awaited and not yet returned
  trace,          \* the calls, returns and log events of the running hook, in order
  result,         \* how the last hook (or the constructor) ended
  prevRun,        \* the last cleanup run that ended, until a version is deployed
  cmpIn,          \* the versions handed to the two comparators
  cmpOut          \* what the comparators answered

vars ==
  << pc, cmd, op, env, service, retainPolicy, registry, orderedStages, stagesToKeep,
     stagesToDelete, idx, outstanding, trace, result, prevRun, cmpIn, cmpOut >>

runVars == << orderedStages, stagesToKeep, stagesToDelete, idx >>
cmpVars == << cmpIn, cmpOut >>
cfgVars == << cmd, env, service, retainPolicy >>

NoEnv == [retainPolicy |-> Undefined, apiVersion |-> Undefined]
NoPrev == [kind |-> "none", retain |-> 0, retired |-> 0]
NoCmp == <<>>

\* this.stage = serverless.service.provider.stage || 'dev'
stage == Str_dev

Event(k, name, arg, ok) == [k |-> k, name |-> name, arg |-> arg, ok |-> ok]
Call(api, arg) == Event("call", api, arg, TRUE)
Ret(api, arg, ok) == Event("ret", api, arg, ok)
Log(msg, arg) == Event("log", msg, arg, TRUE)

Pending(api, arg) == [api |-> api, arg |-> arg]

\* `${service || ''}-${this.stage}-${version}`
aliasStackName(svc, version) ==
  (IF svc = Null THEN <<>> ELSE svc) \o <<"-">> \o stage \o <<"-">> \o version

\* `${service}-${this.stage}`
stackName(svc) == svc \o <<"-">> \o stage

\* stage.stageName?.startsWith('v')
IsVersionStage(st) == Len(st.stageName) > 0 /\ st.stageName[1] = "v"

\* slice(0, n) in the place of slice(-n): the first n are kept.
SliceFirst(arr, n) == SubSeq(arr, 1, IF n < Len(arr) THEN n ELSE Len(arr))

\* arr.slice(-n)
SliceLast(arr, n) == SubSeq(arr, Max(Len(arr) - n, 0) + 1, Len(arr))

\* arr.filter((s) => !keep.includes(s))
FilterNotIncluded(arr, keep) ==
  SelectSeq(arr, LAMBDA s : ~(\E i \in 1..Len(keep) : keep[i] = s))

Init ==
  /\ pc = "new"
  /\ cmd = "deploy"
  /\ op = "none"
  /\ env = NoEnv
  /\ service = Null
  /\ retainPolicy = 0
  /\ registry \in Registries
  /\ orderedStages = <<>>
  /\ stagesToKeep = <<>>
  /\ stagesToDelete = <<>>
  /\ idx = 0
  /\ outstanding = {}
  /\ trace = <<>>
  /\ result = "none"
  /\ prevRun = NoPrev
  /\ cmpIn = NoCmp
  /\ cmpOut = NoCmp

\* ------------------------------------------------------------------------
\* constructor
\* ------------------------------------------------------------------------

Construct(command, hasStack, retainRaw, apiVersion, svc) ==
  /\ pc \in {"new", "failed", "aborted", "validated", "done"}
  /\ op' = "none"
  /\ trace' = <<>>
  /\ outstanding' = {}
  /\ orderedStages' = <<>>
  /\ stagesToKeep' = <<>>
  /\ stagesToDelete' = <<>>
  /\ idx' = 0
  /\ cmd' = command
  /\ UNCHANGED << registry, prevRun, cmpVars >>
  /\ IF ~hasStack
       THEN /\ pc' = "failed"
            /\ result' = "StackNotConfigured"
            /\ env' = NoEnv
            /\ service' = Null
            /\ retainPolicy' = 0
     ELSE IF retainRaw = Undefined \/ retainRaw = <<>>
       THEN /\ pc' = "failed"
            /\ result' = "MissingRetentionPolicy"
            /\ env' = [retainPolicy |-> retainRaw, apiVersion |-> Undefined]
            /\ service' = Null
            /\ retainPolicy' = 0
     ELSE IF parseInt(retainRaw).nan \/ parseInt(retainRaw).n <= 0
       THEN /\ pc' = "failed"
            /\ result' = "InvalidRetentionPolicy"
            /\ env' = [retainPolicy |-> retainRaw, apiVersion |-> Undefined]
            /\ service' = Null
            /\ retainPolicy' = 0
     ELSE /\ pc' = "ready"
          /\ result' = "none"
          /\ env' = [retainPolicy |-> retainRaw, apiVersion |-> apiVersion]
          /\ service' = svc
          /\ retainPolicy' = parseInt(retainRaw).n

\* ------------------------------------------------------------------------
\* getStagesInOrder: the two registry queries, the filter and the sort
\* ------------------------------------------------------------------------

Abort(hook, err) ==
  /\ pc' = "aborted"
  /\ result' = err
  /\ prevRun' = IF hook = "cleanup" THEN NoPrev ELSE prevRun

\* Lines 203-208: the service check, then describeStacks is awaited.  The
\* trace starts anew with the hook.
GetStagesInOrderStart(hook) ==
  IF service = Null
    THEN /\ Abort(hook, "ServiceUndefined")
         /\ trace' = <<>>
         /\ UNCHANGED outstanding
    ELSE /\ pc' = "describeStacks"
         /\ outstanding' = outstanding \cup {Pending("describeStacks", stackName(service))}
         /\ trace' = <<Call("describeStacks", stackName(service))>>
         /\ UNCHANGED << result, prevRun >>

\* describeStacks returns, with a rejected call swallowed: getStagesInOrder
\* goes on to getStages as if the stack had been described.
DescribeStacksReturnSwallowed(outcome) ==
  /\ pc = "describeStacks"
  /\ LET call == Pending("describeStacks", stackName(service))
         ret  == Ret("describeStacks", stackName(service), outcome # "error")
     IN  /\ call \in outstanding
         /\ IF outcome = "noOutput"
              THEN /\ Abort(op, "RestApiRootNotFound")
                   /\ outstanding' = outstanding \ {call}
                   /\ trace' = Append(trace, ret)
            ELSE /\ pc' = "getStages"
                 /\ outstanding' = (outstanding \ {call}) \cup {Pending("getStages", <<>>)}
                 /\ trace' = trace \o <<ret, Call("getStages", <<>>)>>
                 /\ UNCHANGED << result, prevRun >>
  /\ UNCHANGED << op, cfgVars, registry, runVars, cmpVars >>

\* Lines 208-218: describeStacks returns; without the ApiGatewayRestApi output
\* the run ends, otherwise getStages is awaited.
DescribeStacksReturn(outcome) ==
  /\ pc = "describeStacks"
  /\ LET call == Pending("describeStacks", stackName(service))
         ret  == Ret("describeStacks", stackName(service), outcome # "error")
     IN  /\ call \in outstanding
         /\ IF outcome = "error"
              THEN /\ Abort(op, "RegistryUnreachable")
                   /\ outstanding' = outstanding \ {call}
                   /\ trace' = Append(trace, ret)
            ELSE IF outcome = "noOutput"
              THEN /\ Abort(op, "RestApiRootNotFound")
                   /\ outstanding' = outstanding \ {call}
                   /\ trace' = Append(trace, ret)
            ELSE /\ pc' = "getStages"
                 /\ outstanding' = (outstanding \ {call}) \cup {Pending("getStages", <<>>)}
                 /\ trace' = trace \o <<ret, Call("getStages", <<>>)>>
                 /\ UNCHANGED << result, prevRun >>
  /\ UNCHANGED << op, cfgVars, registry, runVars, cmpVars >>

\* stages.item?.filter((stage) => stage.stageName?.startsWith('v'))
versionStages(items) == SelectSeq(items, IsVersionStage)

\* Lines 110-112 of cleanupVersions, after getStagesInOrder returned `ordered`.
PlanCleanup(ordered) ==
  /\ orderedStages' = ordered
  /\ stagesToKeep' = SliceLast(ordered, retainPolicy)
  /\ stagesToDelete' = FilterNotIncluded(ordered, SliceLast(ordered, retainPolicy))
  /\ idx' = 1
  /\ pc' = "loop"
  /\ UNCHANGED << result, prevRun >>

\* validateVersion going on into the retirement of cleanupVersions with the
\* stages it fetched.
CheckCandidateThenCleanup(ordered, log) ==
  /\ PlanCleanup(ordered)
  /\ trace' = log

\* Lines 190-199 of validateVersion, after getStagesInOrder returned `ordered`.
\* `log` is the trace with the return of getStages appended.
CheckCandidate(ordered, log) ==
  /\ orderedStages' = ordered
  /\ UNCHANGED << stagesToKeep, stagesToDelete, idx >>
  /\ IF Len(ordered) > 0 /\ ordered[Len(ordered)].hasTags
       THEN LET lastStage == ordered[Len(ordered)]
                seen == Append(log, Log("lastDeployed", lastStage.stageName))
            IN  IF lastStage.ALIAS = Undefined \/ env.apiVersion = Null
                  THEN /\ Abort("validate", "TypeError")
                       /\ trace' = seen
                ELSE IF ~isGreaterVersion(env.apiVersion, lastStage.ALIAS)
                  THEN /\ Abort("validate", "VersionNotIncreasing")
                       /\ trace' = seen
                ELSE /\ pc' = "validated"
                     /\ result' = "ok"
                     /\ trace' = Append(seen, Log("usingRetention", env.retainPolicy))
                     /\ UNCHANGED prevRun
       ELSE /\ pc' = "validated"
            /\ result' = "ok"
            /\ trace' = Append(log, Log("usingRetention", env.retainPolicy))
            /\ UNCHANGED prevRun

\* Lines 216-221, then the caller's next lines: getStages returns.  "noItem" is
\* a response without an item list.
GetStagesReturn(outcome) ==
  /\ pc = "getStages"
  /\ outcome = "noItem" => registry = <<>>
  /\ LET call == Pending("getStages", <<>>)
         ret  == Ret("getStages", <<>>, outcome # "error")
         sorted == SortStages(versionStages(registry))
     IN  /\ call \in outstanding
         /\ outstanding' = outstanding \ {call}
         /\ IF outcome = "error"
              THEN /\ Abort(op, "RegistryUnreachable")
                   /\ trace' = Append(trace, ret)
                   /\ UNCHANGED runVars
            ELSE IF outcome = "noItem"
              THEN IF op = "cleanup"
                     THEN /\ Abort(op, "StagesUndetermined")
                          /\ trace' = Append(trace, ret)
                          /\ UNCHANGED runVars
                     ELSE /\ pc' = "validated"
                          /\ result' = "ok"
                          /\ trace' = trace \o <<ret, Log("usingRetention", env.retainPolicy)>>
                          /\ UNCHANGED << runVars, prevRun >>
            ELSE IF sorted.thr
              THEN /\ Abort(op, "TypeError")
                   /\ trace' = Append(trace, ret)
                   /\ UNCHANGED runVars
            ELSE IF op = "cleanup"
              THEN /\ PlanCleanup(sorted.arr)
                   /\ trace' = Append(trace, ret)
            ELSE CheckCandidate(sorted.arr, Append(trace, ret))
  /\ UNCHANGED << op, cfgVars, registry, cmpVars >>

\* ------------------------------------------------------------------------
\* validateVersion (hook before:package:createDeploymentArtifacts)
\* ------------------------------------------------------------------------

Falsy(s) == s = Undefined \/ s = Null \/ s = <<>>

ValidateVersion ==
  /\ pc = "ready"
  /\ cmd = "deploy"
  /\ op' = "validate"
  /\ IF Falsy(env.retainPolicy)
       THEN /\ Abort("validate", "MissingRetentionPolicy")
            /\ UNCHANGED << outstanding, trace >>
     ELSE IF env.apiVersion = Undefined
       THEN /\ Abort("validate", "MissingCandidateVersion")
            /\ UNCHANGED << outstanding, trace >>
     ELSE IF ~Falsy(env.apiVersion) /\ ~versionRegex(env.apiVersion)
       THEN /\ Abort("validate", "InvalidFormat")
            /\ UNCHANGED << outstanding, trace >>
     ELSE GetStagesInOrderStart("validate")
  /\ UNCHANGED << cfgVars, registry, runVars, cmpVars >>

\* The deployment that follows an accepted validation adds the stage of the
\* new version (or redeploys the stage of that name).
Deploy ==
  /\ pc = "validated"
  /\ LET new == MkStage(env.apiVersion, TRUE, env.apiVersion)
         known == \E i \in 1..Len(registry) : registry[i].stageName = new.stageName
     IN  /\ known \/ Len(registry) < MaxStages
         /\ registry' = IF known THEN registry ELSE Append(registry, new)
  /\ pc' = "deployed"
  /\ prevRun' = NoPrev
  /\ UNCHANGED << op, cfgVars, runVars, outstanding, trace, result, cmpVars >>

\* ------------------------------------------------------------------------
\* cleanupVersions (command version-manager cleanup, and afterDeploy)
\* ------------------------------------------------------------------------

CleanupStart ==
  /\ op' = "cleanup"
  /\ GetStagesInOrderStart("cleanup")
  /\ UNCHANGED << cfgVars, registry, runVars, cmpVars >>

CleanupVersions ==
  /\ pc = "ready"
  /\ cmd = "cleanup"
  /\ CleanupStart

AfterDeploy ==
  /\ pc = "deployed"
  /\ CleanupStart

\* How many retired stages this run removed successfully.
Removed(log) == Len(SelectSeq(log, LAMBDA e : e.k = "log" /\ e.name = "removed"))

\* The for-of loop is exhausted: cleanupVersions returns.
\* The loop bound off by one: the loop can end before its last stage.
LoopEndEarly ==
  /\ pc = "loop"
  /\ idx >= Len(stagesToDelete)
  /\ pc' = "done"
  /\ result' = "ok"
  /\ prevRun' = [kind |-> IF Removed(trace) = Len(stagesToDelete) THEN "clean" ELSE "partial",
                 retain |-> retainPolicy,
                 retired |-> Removed(trace)]
  /\ UNCHANGED << op, cfgVars, registry, runVars, outstanding, trace, cmpVars >>

LoopEnd ==
  /\ pc = "loop"
  /\ idx > Len(stagesToDelete)
  /\ pc' = "done"
  /\ result' = "ok"
  /\ prevRun' = [kind |-> IF Removed(trace) = Len(stagesToDelete) THEN "clean" ELSE "partial",
                 retain |-> retainPolicy,
                 retired |-> Removed(trace)]
  /\ UNCHANGED << op, cfgVars, registry, runVars, outstanding, trace, cmpVars >>

\* Lines 115-123: a stage without a name or without an ALIAS tag is skipped.
LoopSkip ==
  /\ pc = "loop"
  /\ idx <= Len(stagesToDelete)
  /\ LET st == stagesToDelete[idx]
     IN  /\ st.stageName = Undefined \/ TagOf(st) = Undefined
         /\ trace' = Append(trace,
                       IF st.stageName = Undefined THEN Log("stageUndefined", <<>>)
                       ELSE Log("aliasNotPresent", st.stageName))
  /\ idx' = idx + 1
  /\ UNCHANGED << pc, op, cfgVars, registry, orderedStages, stagesToKeep, stagesToDelete,
                  outstanding, result, prevRun, cmpVars >>

\* deleteStack is called and not awaited: the loop goes on to the next stage
\* while the call is outstanding.
LoopDeleteNotAwaited ==
  /\ pc = "loop"
  /\ idx <= Len(stagesToDelete)
  /\ LET st == stagesToDelete[idx]
         name == aliasStackName(service, TagOf(st))
     IN  /\ st.stageName # Undefined
         /\ TagOf(st) # Undefined
         /\ trace' = trace \o <<Log("removing", TagOf(st)), Call("deleteStack", name)>>
         /\ outstanding' = outstanding \cup {Pending("deleteStack", name)}
  /\ idx' = idx + 1
  /\ UNCHANGED << pc, op, cfgVars, registry, orderedStages, stagesToKeep, stagesToDelete,
                  result, prevRun, cmpVars >>

\* Lines 125-133: the stack of the version is named and deleteStack is awaited.
LoopDelete ==
  /\ pc = "loop"
  /\ idx <= Len(stagesToDelete)
  /\ LET st == stagesToDelete[idx]
         name == aliasStackName(service, TagOf(st))
     IN  /\ st.stageName # Undefined
         /\ TagOf(st) # Undefined
         /\ trace' = trace \o <<Log("removing", TagOf(st)), Call("deleteStack", name)>>
         /\ outstanding' = outstanding \cup {Pending("deleteStack", name)}
  /\ pc' = "deleting"
  /\ UNCHANGED << op, cfgVars, registry, runVars, result, prevRun, cmpVars >>

\* deleteStack returns, without the try/catch: an error ends cleanupVersions.
DeleteStackReturnUncaught(ok) ==
  /\ pc = "deleting"
  /\ LET st == stagesToDelete[idx]
         name == aliasStackName(service, TagOf(st))
         ret  == Ret("deleteStack", name, ok)
     IN  /\ Pending("deleteStack", name) \in outstanding
         /\ IF ok
              THEN /\ pc' = "waiting"
                   /\ outstanding' = (outstanding \ {Pending("deleteStack", name)})
                                       \cup {Pending("waitFor", name)}
                   /\ trace' = trace \o <<ret, Call("waitFor", name)>>
                   /\ UNCHANGED << result, prevRun >>
              ELSE /\ Abort(op, "DeleteFailed")
                   /\ outstanding' = outstanding \ {Pending("deleteStack", name)}
                   /\ trace' = Append(trace, ret)
  /\ UNCHANGED << op, cfgVars, registry, runVars, cmpVars >>

\* deleteStack returns, with waitFor outside the try block: it is awaited
\* after a failed deleteStack too.
DeleteStackReturnThenWait(ok) ==
  /\ pc = "deleting"
  /\ LET st == stagesToDelete[idx]
         name == aliasStackName(service, TagOf(st))
         ret  == Ret("deleteStack", name, ok)
     IN  /\ Pending("deleteStack", name) \in outstanding
         /\ outstanding' = (outstanding \ {Pending("deleteStack", name)})
                             \cup {Pending("waitFor", name)}
         /\ trace' = IF ok THEN trace \o <<ret, Call("waitFor", name)>>
                     ELSE trace \o <<ret, Log("errorRemoving", TagOf(st)), Call("waitFor", name)>>
  /\ pc' = "waiting"
  /\ idx' = idx
  /\ UNCHANGED << op, cfgVars, registry, orderedStages, stagesToKeep, stagesToDelete,
                  result, prevRun, cmpVars >>

\* deleteStack returns, with a catch block that logs nothing.
DeleteStackReturnSilent(ok) ==
  /\ pc = "deleting"
  /\ LET st == stagesToDelete[idx]
         name == aliasStackName(service, TagOf(st))
         ret  == Ret("deleteStack", name, ok)
     IN  /\ Pending("deleteStack", name) \in outstanding
         /\ IF ok
              THEN /\ pc' = "waiting"
                   /\ outstanding' = (outstanding \ {Pending("deleteStack", name)})
                                       \cup {Pending("waitFor", name)}
                   /\ trace' = trace \o <<ret, Call("waitFor", name)>>
                   /\ idx' = idx
              ELSE /\ pc' = "loop"
                   /\ outstanding' = outstanding \ {Pending("deleteStack", name)}
                   /\ trace' = Append(trace, ret)
                   /\ idx' = idx + 1
  /\ UNCHANGED << op, cfgVars, registry, orderedStages, stagesToKeep, stagesToDelete,
                  result, prevRun, cmpVars >>

\* Lines 131-144: deleteStack returns; on success waitFor is awaited, on an
\* error the catch block logs it and the loop goes on.
DeleteStackReturn(ok) ==
  /\ pc = "deleting"
  /\ LET st == stagesToDelete[idx]
         name == aliasStackName(service, TagOf(st))
         ret  == Ret("deleteStack", name, ok)
     IN  /\ Pending("deleteStack", name) \in outstanding
         /\ IF ok
              THEN /\ pc' = "waiting"
                   /\ outstanding' = (outstanding \ {Pending("deleteStack", name)})
                                       \cup {Pending("waitFor", name)}
                   /\ trace' = trace \o <<ret, Call("waitFor", name)>>
                   /\ idx' = idx
              ELSE /\ pc' = "loop"
                   /\ outstanding' = outstanding \ {Pending("deleteStack", name)}
                   /\ trace' = trace \o <<ret, Log("errorRemoving", TagOf(st))>>
                   /\ idx' = idx + 1
  /\ UNCHANGED << op, cfgVars, registry, orderedStages, stagesToKeep, stagesToDelete,
                  result, prevRun, cmpVars >>

\* The registry without the stage st.
WithoutStage(reg, st) == SelectSeq(reg, LAMBDA s : s # st)

\* waitFor returns, with the success message logged whatever it answered.
WaitForReturnSuccessLogged(ok, gone) ==
  /\ pc = "waiting"
  /\ ok => gone
  /\ LET st == stagesToDelete[idx]
         name == aliasStackName(service, TagOf(st))
     IN  /\ Pending("waitFor", name) \in outstanding
         /\ outstanding' = outstanding \ {Pending("waitFor", name)}
         /\ trace' = trace \o <<Ret("waitFor", name, ok), Log("removed", TagOf(st))>>
         /\ registry' = IF gone THEN WithoutStage(registry, st) ELSE registry
  /\ pc' = "loop"
  /\ idx' = idx + 1
  /\ UNCHANGED << op, cfgVars, orderedStages, stagesToKeep, stagesToDelete,
                  result, prevRun, cmpVars >>

\* Lines 137-144: waitFor('stackDeleteComplete') returns.  When it succeeds the
\* stack is gone and its stage with it; when it fails the stack may be gone
\* or not (gone tells which).
WaitForReturn(ok, gone) ==
  /\ pc = "waiting"
  /\ ok => gone
  /\ LET st == stagesToDelete[idx]
         name == aliasStackName(service, TagOf(st))
     IN  /\ Pending("waitFor", name) \in outstanding
         /\ outstanding' = outstanding \ {Pending("waitFor", name)}
         /\ trace' = trace \o <<Ret("waitFor", name, ok),
                                IF ok THEN Log("removed", TagOf(st))
                                ELSE Log("errorRemoving", TagOf(st))>>
         /\ registry' = IF gone THEN WithoutStage(registry, st) ELSE registry
  /\ pc' = "loop"
  /\ idx' = idx + 1
  /\ UNCHANGED << op, cfgVars, orderedStages, stagesToKeep, stagesToDelete,
                  result, prevRun, cmpVars >>

\* ------------------------------------------------------------------------
\* The plugin process: a command constructs the plugin and runs its hooks;
\* the next command starts when the process has ended.
\* ------------------------------------------------------------------------

\* A constructor that throws reads nothing after the value it rejects, and a
\* null service ends either hook before anything else is read, so one input
\* stands for each of those cases.  The cleanup command is run without an
\* apiVersion, which cleanupVersions never reads.
NewProcess ==
  \/ Construct("deploy", FALSE, Undefined, Undefined, Null)
  \/ \E retainRaw \in RetainChoices, apiVersion \in CandidateChoices :
       Construct("deploy", TRUE, retainRaw, apiVersion, Str_svc)
  \/ \E retainRaw \in RetainChoices, svc \in ServiceChoices :
       Construct("cleanup", TRUE, retainRaw, Undefined, svc)
  \/ Construct("deploy", TRUE, <<"1">>, Str_v2_10_0, Null)

Next ==
  \/ NewProcess
  \/ ValidateVersion
  \/ Deploy
  \/ CleanupVersions
  \/ AfterDeploy
  \/ \E outcome \in {"ok", "noOutput", "error"} : DescribeStacksReturn(outcome)
  \/ \E outcome \in {"ok", "noItem", "error"} : GetStagesReturn(outcome)
  \/ LoopSkip
  \/ LoopDelete
  \/ \E ok \in BOOLEAN : DeleteStackReturn(ok)
  \/ \E ok \in BOOLEAN, gone \in BOOLEAN : WaitForReturn(ok, gone)
  \/ LoopEnd

Spec == Init /\ [][Next]_vars

\* The steps of a hook that has started: the returns of the calls it awaits
\* and the steps of its loop.  (The failing return of getStages is named
\* first: it is the one whose enabledness needs no sort to be decided.)
RunStep ==
  \/ \E outcome \in {"ok", "noOutput", "error"} : DescribeStacksReturn(outcome)
  \/ GetStagesReturn("error")
  \/ GetStagesReturn("noItem")
  \/ GetStagesReturn("ok")
  \/ LoopSkip
  \/ LoopDelete
  \/ \E ok \in BOOLEAN : DeleteStackReturn(ok)
  \/ \E ok \in BOOLEAN, gone \in BOOLEAN : WaitForReturn(ok, gone)
  \/ LoopEnd

\* Every awaited call returns, with a result or an error, and the function
\* that awaits it then runs on: the steps of a hook that has started are
\* taken.  Starting a process or a hook is not required.
Fairness == WF_vars(RunStep)

SpecFair == Spec /\ Fairness

\* ------------------------------------------------------------------------
\* The comparators applied to chosen versions
\* ------------------------------------------------------------------------

\* Version tags of one, two and three components.
Tokens == {Str_v1_0_0, Str_v2_9_9, Str_v2_9_5, Str_v2_10_0, Str_v2_9}

Sign(x) == IF x > 0 THEN 1 ELSE IF x < 0 THEN 0 - 1 ELSE 0

Tagged(t) == MkStage(t, TRUE, t)

InitCmp ==
  /\ pc = "new"
  /\ cmd = "deploy"
  /\ op = "none"
  /\ env = NoEnv
  /\ service = Null
  /\ retainPolicy = 0
  /\ registry = <<>>
  /\ orderedStages = <<>>
  /\ stagesToKeep = <<>>
  /\ stagesToDelete = <<>>
  /\ idx = 0
  /\ outstanding = {}
  /\ trace = <<>>
  /\ result = "none"
  /\ prevRun = NoPrev
  /\ cmpIn \in Tokens \X Tokens \X Tokens
  /\ cmpOut = NoCmp

\* semverSort and isGreaterVersion on the pairs of (a, b, c).
CompareVersions ==
  /\ cmpIn # NoCmp
  /\ cmpOut = NoCmp
  /\ LET a == cmpIn[1]
         b == cmpIn[2]
         c == cmpIn[3]
     IN  cmpOut' = [ ab |-> Sign(semverSort(Tagged(a), Tagged(b))),
                     ba |-> Sign(semverSort(Tagged(b), Tagged(a))),
                     bc |-> Sign(semverSort(Tagged(b), Tagged(c))),
                     ac |-> Sign(semverSort(Tagged(a), Tagged(c))),
                     gab |-> isGreaterVersion(a, b),
                     gba |-> isGreaterVersion(b, a) ]
  /\ UNCHANGED << pc, op, cfgVars, registry, runVars, outstanding, trace, result,
                  prevRun, cmpIn >>

NextCmp == CompareVersions

SpecCmp == InitCmp /\ [][NextCmp]_vars

\* ------------------------------------------------------------------------
\* Properties
\* ------------------------------------------------------------------------

\* Component-wise comparison of two parsed versions, the shorter one padded
\* with zeros: x is greater when it is larger at the first place they differ.
PadTo(v, n) == [i \in 1..n |-> IF i <= Len(v) THEN v[i] ELSE 0]

TokenGreater(x, y) ==
  LET n  == Max(Len(x), Len(y))
      px == PadTo(x, n)
      py == PadTo(y, n)
  IN  \E i \in 1..n : px[i] > py[i] /\ \A j \in 1..(i - 1) : px[j] = py[j]

IsCall(e, api) == e.k = "call" /\ e.name = api
IsRet(e, api) == e.k = "ret" /\ e.name = api

\* The arguments of the calls of api in the trace, in order.
CallArgs(log, api) ==
  LET cs == SelectSeq(log, LAMBDA e : IsCall(e, api))
  IN  [i \in 1..Len(cs) |-> cs[i].arg]

Readable(st) == st.stageName # Undefined /\ TagOf(st) # Undefined

\* The stack names of the readable stages of sts, in order.
StackNames(sts) ==
  LET rs == SelectSeq(sts, Readable)
  IN  [i \in 1..Len(rs) |-> aliasStackName(service, TagOf(rs[i]))]

\* cleanupVersions has planned (the loop was entered).
Planned == op = "cleanup" /\ idx >= 1

InLoop == pc \in {"loop", "deleting", "waiting"}

\* C1: failure isolation.  Once the retire set is planned, nothing that a
\* deleteStack or waitFor call answers ends the run before the loop is
\* exhausted, and when the run has ended every retired stage with a readable
\* name and tag had its deleteStack issued, in the order of the retire set,
\* whatever the earlier calls answered.
C1_FailureIsolation ==
  Planned =>
    /\ InLoop \/ pc = "done"
    /\ pc = "loop" => CallArgs(trace, "deleteStack") = StackNames(SubSeq(stagesToDelete, 1, idx - 1))
    /\ pc = "done" => CallArgs(trace, "deleteStack") = StackNames(stagesToDelete)

\* A run that ended although the deleteStack of its first retired stage
\* failed, and that still issued the deleteStack of a later one.
C1_Witness ==
  /\ Planned
  /\ pc = "done"
  /\ \E i, j \in 1..Len(trace) :
       /\ i < j
       /\ IsRet(trace[i], "deleteStack") /\ ~trace[i].ok
       /\ IsCall(trace[j], "deleteStack")

\* C2: retention partition.  After planning, the keep set is the last
\* min(retainPolicy, total) stages of the ordered list and the retire set is
\* everything before them: retire followed by keep is the ordered list, and
\* no stage is in both.
C2_RetentionPartition ==
  Planned =>
    LET total == Len(orderedStages)
        k     == IF retainPolicy < total THEN retainPolicy ELSE total
    IN  /\ retainPolicy > 0
        /\ Len(stagesToKeep) = k
        /\ stagesToKeep = SubSeq(orderedStages, total - k + 1, total)
        /\ stagesToDelete \o stagesToKeep = orderedStages
        /\ \A i \in 1..Len(stagesToKeep), j \in 1..Len(stagesToDelete) :
             stagesToKeep[i] # stagesToDelete[j]

\* Three version stages planned with a retention of two: two kept, one retired.
C2_Witness ==
  /\ Planned
  /\ retainPolicy = 2
  /\ Len(stagesToKeep) = 2
  /\ Len(stagesToDelete) = 1

\* The latest deployed stage as validateVersion saw it.
HasLatest ==
  /\ op = "validate"
  /\ Len(orderedStages) > 0
  /\ TagOf(orderedStages[Len(orderedStages)]) # Undefined

LatestTag == TagOf(orderedStages[Len(orderedStages)])

\* C3: strict-increase gate.  When validateVersion found a latest stage with
\* a readable tag, it succeeds exactly when the candidate is strictly greater
\* than that tag, and otherwise fails with the version-not-increasing error.
C3_StrictIncrease ==
  HasLatest =>
    /\ result \in {"ok", "VersionNotIncreasing"}
    /\ result = "ok" <=>
         TokenGreater(ParseVersion(env.apiVersion), ParseVersion(LatestTag))

\* A candidate equal to the latest tag, rejected.
C3_Witness ==
  /\ HasLatest
  /\ env.apiVersion = LatestTag
  /\ result = "VersionNotIncreasing"

\* The ways the registry resolution of lines 104-112 and 202-218 fails.
RegistryErrors ==
  {"ServiceUndefined", "RestApiRootNotFound", "RegistryUnreachable", "StagesUndetermined"}

Unreadable(sts) == SelectSeq(sts, LAMBDA st : ~Readable(st))

SkipLogs(log) ==
  SelectSeq(log, LAMBDA e : e.k = "log" /\ e.name \in {"aliasNotPresent", "stageUndefined"})

\* C4: unreadable tags are never fatal to cleanup.  A cleanup run ends early
\* only because the registry could not be resolved, never because of the
\* stages it lists; where it ends, every retired stage without a readable tag
\* was skipped with a log event and only the readable ones were deleted.
C4_UnreadableTagsNotFatal ==
  op = "cleanup" =>
    /\ pc = "aborted" => result \in RegistryErrors
    /\ pc = "done" =>
         /\ Len(SkipLogs(trace)) = Len(Unreadable(stagesToDelete))
         /\ CallArgs(trace, "deleteStack") = StackNames(stagesToDelete)

\* The calls of api in the trace.
Calls(log, api) == SelectSeq(log, LAMBDA e : IsCall(e, api))

\* C5: registry failure is fatal to cleanup.  When the service is null, the
\* REST API id is not among the stack outputs, or describeStacks or getStages
\* is rejected, cleanupVersions ends with that error: the failed query is the
\* last thing the run did, no deleteStack or waitFor call was issued, and no
\* query was issued twice.
C5_RegistryFailureFatal ==
  op = "cleanup" =>
    /\ \A i \in 1..Len(trace) :
         (trace[i].k = "ret" /\ trace[i].name \in {"describeStacks", "getStages"}
            /\ ~trace[i].ok)
           => i = Len(trace) /\ pc = "aborted" /\ result = "RegistryUnreachable"
    /\ result \in RegistryErrors =>
         /\ pc = "aborted"
         /\ outstanding = {}
         /\ Calls(trace, "deleteStack") = <<>>
         /\ Calls(trace, "waitFor") = <<>>
         /\ Len(Calls(trace, "describeStacks")) <= 1
         /\ Len(Calls(trace, "getStages")) <= 1

\* describeStacks was rejected while the registry held more version stages
\* than the retention keeps.
C5_Witness ==
  /\ op = "cleanup"
  /\ result = "RegistryUnreachable"
  /\ Len(trace) = 2
  /\ Len(versionStages(registry)) > retainPolicy

\* The return that ends the delete-then-wait cycle of the stack `name`.
CycleEnd(e, name) ==
  /\ e.k = "ret"
  /\ e.arg = name
  /\ (e.name = "deleteStack" /\ ~e.ok) \/ e.name = "waitFor"

\* C6: strictly sequential retirement.  At most one external call is
\* outstanding at any time, and between two deleteStack calls of a run the
\* cycle of the earlier one has ended: its deleteStack was rejected or its
\* waitFor has returned.
C6_SequentialRetirement ==
  op = "cleanup" =>
    /\ Cardinality(outstanding) <= 1
    /\ \A i, j \in 1..Len(trace) :
         (i < j /\ IsCall(trace[i], "deleteStack") /\ IsCall(trace[j], "deleteStack"))
           => \E k \in (i + 1)..(j - 1) : CycleEnd(trace[k], trace[i].arg)

\* The second deleteStack of a run is outstanding.
C6_Witness ==
  /\ op = "cleanup"
  /\ pc = "deleting"
  /\ Len(Calls(trace, "deleteStack")) = 2

\* A cleanup run that follows an ended cleanup run with the same retention and
\* no deployment in between, after its planning.
SecondRun ==
  /\ Planned
  /\ InLoop
  /\ prevRun.kind \in {"clean", "partial"}
  /\ prevRun.retain = retainPolicy

C8_GreaterThanAllDeployed ==
  (op = "validate" /\ pc = "validated" /\ result = "ok") =>
    \A i \in 1..Len(registry) :
      (IsVersionStage(registry[i]) /\ TagOf(registry[i]) # Undefined)
        => TokenGreater(ParseVersion(env.apiVersion), ParseVersion(TagOf(registry[i])))

\* The order of two parsed versions: 1, 0 or -1.
TokenCompare(x, y) ==
  IF TokenGreater(x, y) THEN 1 ELSE IF TokenGreater(y, x) THEN 0 - 1 ELSE 0

\* C9: version comparison is a total order.  For versions a, b, c of any
\* numbers of components, the comparator orders them component-wise with
\* missing components as zero, the order of (a, b) is the reverse of the
\* order of (b, a), it is transitive, and isGreaterVersion(a, b) holds
\* exactly when the comparator finds a greater than b.
C9_TotalOrder ==
  cmpOut # NoCmp =>
    /\ cmpOut.ab = TokenCompare(ParseVersion(cmpIn[1]), ParseVersion(cmpIn[2]))
    /\ cmpOut.ab = 0 - cmpOut.ba
    /\ (cmpOut.ab >= 0 /\ cmpOut.bc >= 0) => cmpOut.ac >= 0
    /\ (cmpOut.ab > 0 /\ cmpOut.bc >= 0) => cmpOut.ac > 0
    /\ cmpOut.gab <=> cmpOut.ab > 0
    /\ cmpOut.gba <=> cmpOut.ba > 0

\* C10: configuration and candidate-format errors precede external calls.
\* When the retention policy or the candidate is missing, or the candidate is
\* not of the shape v<int>-<int>-<int>, validateVersion fails and has issued
\* no external call.
C10_FormatErrorsBeforeCalls ==
  (op = "validate"
     /\ (Falsy(env.retainPolicy) \/ env.apiVersion = Undefined
           \/ ~versionRegex(env.apiVersion)))
    => /\ pc = "aborted"
       /\ result \in {"MissingRetentionPolicy", "MissingCandidateVersion", "InvalidFormat"}
       /\ \A i \in 1..Len(trace) : trace[i].k # "call"

\* Calls that tear a stack down.
IsTeardown(e) == e.k = "call" /\ e.name \in {"deleteStack", "waitFor"}

\* C11: validateVersion never mutates deployed state.  No step of
\* validateVersion, whether it ends in success or in an error, changes the
\* stages of the registry or issues a deleteStack or waitFor call: it issues
\* the two read queries and log events only.  (The step out of "validated" is
\* the deployment itself, which is not validateVersion's.)
C11_ValidateReadOnly ==
  [][ (op' = "validate" /\ pc # "validated") =>
        /\ registry' = registry
        /\ \A i \in 1..Len(trace') :
             /\ ~IsTeardown(trace'[i])
             /\ trace'[i].k = "call" => trace'[i].name \in {"describeStacks", "getStages"}
        /\ \A c \in outstanding' : c.api \in {"describeStacks", "getStages"} ]_vars

\* validateVersion accepted a candidate against a registry with a tagged
\* latest stage, after both queries.
C11_Witness ==
  /\ op = "validate"
  /\ pc = "validated"
  /\ result = "ok"
  /\ HasLatest
  /\ Len(Calls(trace, "getStages")) = 1

\* The versions announced by the "removing" events of the trace, one per
\* deleteStack call, in the order of the calls.
RetiredVersions(log) ==
  LET rs == SelectSeq(log, LAMBDA e : e.k = "log" /\ e.name = "removing")
  IN  [i \in 1..Len(rs) |-> ParseVersion(rs[i].arg)]

\* No version of vs is followed by a lower one.
Ascending(vs) == \A i, j \in 1..Len(vs) : i < j => ~TokenGreater(vs[i], vs[j])

\* The versions of the readable stages of sts, in order.
VersionsOf(sts) ==
  LET rs == SelectSeq(sts, Readable)
  IN  [i \in 1..Len(rs) |-> ParseVersion(TagOf(rs[i]))]

\* C12: retirement order.  The stages a cleanup run plans with are sorted by
\* version ascending, and the deleteStack calls of the run are issued in that
\* ascending order: a stage retired after another one does not have a lower
\* version.
C12_AscendingRetirement ==
  Planned => /\ Ascending(VersionsOf(orderedStages))
             /\ Ascending(RetiredVersions(trace))

\* raw is the decimal notation of a positive integer.
IsPositiveInteger(raw) ==
  /\ raw # Undefined
  /\ Len(raw) > 0
  /\ IsDigits(raw)
  /\ ToNumber(raw) > 0

\* C13: the retention count is validated at construction.  A plugin that
\* was constructed (its hooks can run) was given a retainPolicy that is a
\* positive integer, and keeps that number: an absent, non-numeric, zero or
\* negative retainPolicy makes the constructor throw.
C13_RetentionValidated ==
  pc \notin {"new", "failed"} =>
    /\ IsPositiveInteger(env.retainPolicy)
    /\ retainPolicy = ToNumber(env.retainPolicy)

\* A cleanup run that has started and not ended.
CleanupRunning ==
  op = "cleanup" /\ pc \in {"describeStacks", "getStages", "loop", "deleting", "waiting"}

\* The events that end the handling of one stage of the retire set.
OutcomeLogs(log) ==
  SelectSeq(log, LAMBDA e : e.k = "log" /\ e.name \in {"stageUndefined", "aliasNotPresent",
                                                       "removed", "errorRemoving"})

\* C14: run completion.  When every awaited call returns, a cleanup run that
\* has started ends, aborted or done.  It aborts only in getStagesInOrder,
\* before anything is planned or deleted; it is done only when the loop has
\* gone past the last stage of the retire set, each stage having had its
\* outcome and no call being outstanding; and the loop never goes back to an
\* earlier stage.
C14_RunCompletion ==
  /\ [](CleanupRunning => <>(op = "cleanup" /\ pc \in {"aborted", "done"}))
  /\ []((op = "cleanup" /\ pc = "aborted") =>
          /\ idx = 0
          /\ Len(Calls(trace, "deleteStack")) = 0)
  /\ []((op = "cleanup" /\ pc = "done") =>
          /\ idx = Len(stagesToDelete) + 1
          /\ Len(OutcomeLogs(trace)) = Len(stagesToDelete)
          /\ outstanding = {})
  /\ [][(op = "cleanup" /\ op' = "cleanup") => idx' >= idx]_vars

\* A run is done after two stages were retired, one of them with an error.
C14_Witness ==
  /\ op = "cleanup"
  /\ pc = "done"
  /\ Len(stagesToDelete) = 2
  /\ \E i \in 1..Len(trace) : trace[i].k = "log" /\ trace[i].name = "errorRemoving"
  /\ \E i \in 1..Len(trace) : trace[i].k = "log" /\ trace[i].name = "removed"

\* The number of events named msg in the trace.
CountLogs(log, msgs) ==
  Len(SelectSeq(log, LAMBDA e : e.k = "log" /\ e.name \in msgs))

\* The outcome event e is the one of the retired stage st: a skip for a stage
\* without a name or tag, a success or an error for the others.
OutcomeOf(e, st) ==
  IF st.stageName = Undefined THEN e.name = "stageUndefined"
  ELSE IF TagOf(st) = Undefined THEN e.name = "aliasNotPresent" /\ e.arg = st.stageName
  ELSE e.name \in {"removed", "errorRemoving"} /\ e.arg = TagOf(st)

\* C15: outcome accounting.  The stages planned with are the version stages
\* the registry listed.  When a cleanup run is done, the i-th outcome event
\* of its trace is the outcome of the i-th retired stage (skipped, removed,
\* or error), one event per stage, so that kept + removed + errors + skipped
\* is the number of version stages listed; and at any time, a deleteStack or
\* waitFor call that returned an error is followed by its error event.
C15_OutcomeAccounting ==
  /\ (Planned /\ pc = "loop" /\ idx = 1) =>
       Len(orderedStages) = Len(versionStages(registry))
  /\ (op = "cleanup" /\ pc = "done") =>
       LET outs == OutcomeLogs(trace)
       IN  /\ Len(outs) = Len(stagesToDelete)
           /\ \A i \in 1..Len(outs) : OutcomeOf(outs[i], stagesToDelete[i])
           /\ Len(stagesToKeep)
                + CountLogs(trace, {"removed"})
                + CountLogs(trace, {"errorRemoving"})
                + CountLogs(trace, {"stageUndefined", "aliasNotPresent"})
              = Len(orderedStages)
  /\ Planned =>
       \A i \in 1..Len(trace) :
         (trace[i].k = "ret" /\ trace[i].name \in {"deleteStack", "waitFor"} /\ ~trace[i].ok) =>
           /\ i < Len(trace)
           /\ trace[i + 1] = Log("errorRemoving", SubSeq(trace[i].arg, Len(stackName(service)) + 2,
                                                         Len(trace[i].arg)))

\* A run is done that kept one stage, skipped one and failed to remove one.
C15_Witness ==
  /\ op = "cleanup"
  /\ pc = "done"
  /\ Len(stagesToKeep) = 1
  /\ CountLogs(trace, {"aliasNotPresent"}) = 1
  /\ CountLogs(trace, {"errorRemoving"}) = 1

\* The set of the elements of a sequence.
Range(seq) == {seq[i] : i \in 1..Len(seq)}

\* C16: kept versions are never torn down.  In a cleanup run every stack
\* name passed to deleteStack is the stack name of a retired stage and is
\* not the stack name of any kept stage, also when two stages carry the same
\* ALIAS tag.
C16_KeptNeverDeleted ==
  Planned =>
    \A name \in Range(CallArgs(trace, "deleteStack")) :
      /\ name \in Range(StackNames(stagesToDelete))
      /\ name \notin Range(StackNames(stagesToKeep))

\* C17: the two comparators agree.  For version tags a and b of any numbers
\* of components, semverSort(a, b) is positive exactly when
\* isGreaterVersion(a, b) holds and negative exactly when
\* isGreaterVersion(b, a) holds.
C17_ComparatorsAgree ==
  cmpOut # NoCmp =>
    /\ cmpOut.ab > 0 <=> cmpOut.gab
    /\ cmpOut.ab < 0 <=> cmpOut.gba

\* C18: the delete-then-wait protocol of one stage.  In a cleanup run, a
\* waitFor call directly follows the successful return of the deleteStack
\* call for the same stack name; a failed deleteStack is followed by its
\* error event and then by the next stage's events, never by a waitFor call;
\* and the success event directly follows the successful return of waitFor,
\* itself after the successful return of deleteStack for the same name.
C18_DeleteThenWait ==
  Planned =>
    \A i \in 1..Len(trace) :
      LET e == trace[i]
      IN  /\ IsCall(e, "waitFor") =>
               /\ i >= 3
               /\ trace[i - 1] = Ret("deleteStack", e.arg, TRUE)
               /\ trace[i - 2] = Call("deleteStack", e.arg)
          /\ (IsRet(e, "deleteStack") /\ ~e.ok) =>
               /\ i < Len(trace)
               /\ trace[i + 1].k = "log" /\ trace[i + 1].name = "errorRemoving"
               /\ i + 2 <= Len(trace) => trace[i + 2].k = "log"
               /\ Pending("waitFor", e.arg) \notin outstanding \/ i + 2 <= Len(trace)
          /\ (e.k = "log" /\ e.name = "removed") =>
               /\ i >= 5
               /\ trace[i - 1] = Ret("waitFor", aliasStackName(service, e.arg), TRUE)
               /\ trace[i - 2] = Call("waitFor", aliasStackName(service, e.arg))
               /\ trace[i - 3] = Ret("deleteStack", aliasStackName(service, e.arg), TRUE)

\* A run is done in which one deleteStack failed and another stage was
\* removed after both of its calls succeeded.
C18_Witness ==
  /\ op = "cleanup"
  /\ pc = "done"
  /\ \E i \in 1..Len(trace) : IsRet(trace[i], "deleteStack") /\ ~trace[i].ok
  /\ \E i \in 1..Len(trace) : trace[i].k = "log" /\ trace[i].name = "removed"

====
